---- MODULE Spec2Model ----
(***************************************************************************)
(* A model of the two TPM utilities of pcr-extend:                         *)
(*   pcr-extend  (src/src/pcr-extend.c)  digest a stream, extend a PCR      *)
(*   pcr-dump    (src/unnamed/part_000)  read a PCR and print it            *)
(* Each program is a sequential state machine; pc is the position in the   *)
(* program text.  The TPM software stack, argp, stdio and the digest        *)
(* primitive are external: their outcomes are chosen nondeterministically.  *)
(***************************************************************************)
EXTENDS Integers, Sequences, FiniteSets, TLC

(* ------------------------------ bounds --------------------------------- *)
\* streams are 0 .. MaxChunks full buffers long, give or take a byte
MaxChunks == 2
\* context handles the TPM stack hands out are 1 .. MaxHandle
MaxHandle == 2

(* ------------------------- program constants --------------------------- *)
BUF_SIZE == 1024
TSS_SUCCESS == 0
EXIT_SUCCESS == 0
EXIT_FAILURE == 1
ARGP_ERR_UNKNOWN == 7

NULL == "NULL"
\* the value of a process ended by SIGSEGV, as its parent sees it (128 + 11)
Crashed == 128 + 11
\* exitStatus while the process still runs
Running == 0 - 1

\* non-zero TSS_RESULT codes of the TPM stack: the TPM-layer codes returned by
\* the five operations and the TSP-layer codes returned by the teardown calls
OpErrors == {2, 12291}
TeardownErrors == {12290, 12582}

(* ------------------------- argument parsing ---------------------------- *)
Digits == [c \in {"0", "1", "2", "3", "4", "5", "6", "7", "8", "9"} |->
             CASE c = "0" -> 0 [] c = "1" -> 1 [] c = "2" -> 2 [] c = "3" -> 3
               [] c = "4" -> 4 [] c = "5" -> 5 [] c = "6" -> 6 [] c = "7" -> 7
               [] c = "8" -> 8 [] c = "9" -> 9]

\* -p absent from the command line
NoArg == <<>>

\* the texts given to -p
PcrArgs == {<<"1", "6">>, <<"7", "x">>, <<"x">>}

\* strtol (arg, NULL, 10): the value of the longest prefix of digits, 0 if none
RECURSIVE StrtolFrom(_, _, _)
StrtolFrom(s, i, acc) ==
    IF i > Len(s) \/ s[i] \notin DOMAIN Digits
    THEN acc
    ELSE StrtolFrom(s, i + 1, acc * 10 + Digits[s[i]])

Strtol(s) == StrtolFrom(s, 1, 0)

ZeroArgs == [file |-> NULL, pcr_index |-> 0, pcr_set |-> FALSE, verbose |-> FALSE]

\* parse_opts of pcr-extend: the error code and the updated arguments
extend_parse_opts(key, arg, a) ==
    CASE key = "f" -> [err |-> 0, args |-> [a EXCEPT !.file = arg]]
      [] key = "p" -> [err |-> 0,
                       args |-> [a EXCEPT !.pcr_index = Strtol(arg), !.pcr_set = TRUE]]
      [] key = "v" -> [err |-> 0, args |-> [a EXCEPT !.verbose = TRUE]]
      [] OTHER -> [err |-> ARGP_ERR_UNKNOWN, args |-> a]

\* parse_opts of pcr-dump
dump_parse_opts(key, arg, a) ==
    CASE key = "p" -> [err |-> 0,
                       args |-> [a EXCEPT !.pcr_index = Strtol(arg), !.pcr_set = TRUE]]
      [] key = "v" -> [err |-> 0, args |-> [a EXCEPT !.verbose = TRUE]]
      [] OTHER -> [err |-> ARGP_ERR_UNKNOWN, args |-> a]

\* the command lines: -p with a text or absent, -f with a path or absent (extend
\* only), -v or not, and possibly an option the tool does not know
CommandLines(t) ==
    [p : PcrArgs \cup {NoArg},
     f : IF t = "extend" THEN {NULL, "path"} ELSE {NULL},
     v : BOOLEAN,
     bad : BOOLEAN]

\* the options argp hands to the parser, in command-line order
OptionsOf(cl) ==
    (IF cl.p # NoArg THEN <<[key |-> "p", arg |-> cl.p]>> ELSE <<>>)
    \o (IF cl.f # NULL THEN <<[key |-> "f", arg |-> cl.f]>> ELSE <<>>)
    \o (IF cl.v THEN <<[key |-> "v", arg |-> NULL]>> ELSE <<>>)

RECURSIVE ParseAll(_, _, _)
ParseAll(t, opts, a) ==
    IF opts = <<>>
    THEN a
    ELSE LET r == IF t = "extend"
                  THEN extend_parse_opts(Head(opts).key, Head(opts).arg, a)
                  ELSE dump_parse_opts(Head(opts).key, Head(opts).arg, a)
         IN ParseAll(t, Tail(opts), r.args)

(* ------------------------------ streams -------------------------------- *)
\* A stream is len bytes, all zero but for the marked positions; errAt is the
\* position at which reading it fails (NoErr: it never fails).
NoErr == 0 - 1

StreamLens == {k * BUF_SIZE + d : k \in 0 .. MaxChunks, d \in {0, 1, BUF_SIZE - 1}}

MarkSets(len) ==
    { m \cap (0 .. len - 1) :
        m \in {{}, {0, len - 1}, {BUF_SIZE - 1, BUF_SIZE}} }

Streams ==
    UNION { [len : {l}, marks : MarkSets(l), errAt : {NoErr, 0, l} \cup ({BUF_SIZE + 1} \cap (0 .. l))]
            : l \in StreamLens }

ByteAt(s, i) == IF i \in s.marks THEN 1 + (i % 255) ELSE 0

(* ------------------------------ digest --------------------------------- *)
\* The digest primitive is modelled by a polynomial hash over the bytes fed to
\* it: sensitive to a dropped, a duplicated and a reordered byte.
RECURSIVE PowMod(_, _)
PowMod(b, n) ==
    IF n = 0 THEN 1
    ELSE LET h == PowMod(b, n \div 2)
             sq == (h * h) % 32749
         IN IF n % 2 = 0 THEN sq ELSE (sq * b) % 32749

RECURSIVE SumMarks(_, _, _, _)
SumMarks(s, ps, off, n) ==
    IF ps = {} THEN 0
    ELSE LET p == CHOOSE q \in ps : TRUE
         IN ((ByteAt(s, p) * PowMod(257, off + n - 1 - p))
             + SumMarks(s, ps \ {p}, off, n)) % 32749

\* EVP_DigestInit: the initial digest state
DigestInit == 1

\* EVP_DigestUpdate with the n bytes of stream s from offset off
DigestUpdate(h, s, off, n) ==
    (((h * PowMod(257, n)) % 32749)
     + SumMarks(s, {p \in s.marks : off <= p /\ p < off + n}, off, n)) % 32749

\* EVP_DigestFinal: the hash and its length (SHA-1: 20 bytes)
DigestFinal(h) == [bytes |-> h, len |-> 20]

\* the digest of the whole stream, computed in one pass
OnePass(s) == DigestFinal(DigestUpdate(DigestInit, s, 0, s.len))

Min(a, b) == IF a < b THEN a ELSE b

\* fread (buf, 1, BUF_SIZE, file) at position pos: the count read and the
\* end-of-file and error indicators it leaves
Fread(s, pos, eof, err) ==
    LET limit == IF s.errAt # NoErr /\ s.errAt <= s.len THEN s.errAt ELSE s.len
        n == IF limit > pos THEN Min(BUF_SIZE, limit - pos) ELSE 0
        short == n < BUF_SIZE
    IN [n |-> n,
        feof |-> eof \/ (short /\ limit = s.len /\ s.errAt # limit),
        ferror |-> err \/ (short /\ s.errAt = limit)]

(* ------------------------- result conversions -------------------------- *)
\* TSS_RESULT (UINT32) returned through an int: a value up to INT_MAX converts
\* unchanged, a larger one wraps to r - 2^32.  The codes of the TPM stack have
\* their top bit clear.
ToInt(r) == IF r <= 2147483647 THEN r ELSE ((r - 2147483647) - 2147483647) - 2

(* ------------------------------- state --------------------------------- *)
VARIABLES
    tool,          \* "extend" or "dump": the program that runs
    pc,            \* the position in the program
    argv,          \* the command line
    args,          \* extend_args / dump_args
    parse_rc,      \* what argp_parse returned
    file,          \* main's FILE *file: "stdin", "fh" (an opened file) or NULL
    stream,        \* the bytes behind file
    fpos,          \* the stream's position
    feof,          \* the stream's end-of-file indicator
    ferror,        \* the stream's error indicator
    num_read,      \* sha1_file's num_read
    ctx,           \* sha1_file's digest context
    fed,           \* the chunks fed to the digest: <<offset, length>> each
    buf,           \* main's buf: the hash sha1_file returned, or NoHash
    context,       \* the session manager's TSS_HCONTEXT
    context_valid, \* whether context was written by a successful create
    tpm,           \* the session manager's TSS_HTPM
    result,        \* the session manager's result
    out,           \* the session manager's out
    rc,            \* what the session manager returned
    calls,         \* the TPM stack operations invoked, in order
    ret,           \* main's ret
    exitStatus,    \* the process's exit status, Running before it ends
    stdout,        \* what was written to standard output
    stderr,        \* what was written to standard error
    fcloses        \* the streams fclose was called on, in order

vars == <<tool, pc, argv, args, parse_rc, file, stream, fpos, feof, ferror,
          num_read, ctx, fed, buf, context, context_valid, tpm, result, out,
          rc, calls, ret, exitStatus, stdout, stderr, fcloses>>

mainVars == <<argv, args, parse_rc, ret, exitStatus, fcloses>>
fileVars == <<file, stream, fpos, feof, ferror>>
sha1Vars == <<num_read, ctx, fed>>
tpmVars == <<context, context_valid, tpm, result, out, rc, calls>>

NoHandle == 0 - 1
NoHash == [bytes |-> 0 - 1, len |-> 0]
NoStream == [len |-> 0, marks |-> {}, errAt |-> NoErr]

\* one invocation of a TPM stack operation: the handle passed (a context or a
\* TPM object), whether that handle came from a successful call, and for the
\* PCR operations the index and the data
Call(op, h, valid, res, idx, dat) ==
    [op |-> op, h |-> h, valid |-> valid, res |-> res, idx |-> idx, dat |-> dat]

\* the TPM object handle the stack gives for a context
TpmObject(c) == MaxHandle + c

Init ==
    /\ tool \in {"extend", "dump"}
    /\ pc = "parse"
    /\ argv \in CommandLines(tool)
    /\ args = ZeroArgs
    /\ parse_rc = 0
    /\ file = "stdin"
    /\ stream = NoStream
    /\ fpos = 0
    /\ feof = FALSE
    /\ ferror = FALSE
    /\ num_read = 0
    /\ ctx = 0
    /\ fed = <<>>
    /\ buf = NoHash
    /\ context = 0
    /\ context_valid = FALSE
    /\ tpm = NoHandle
    /\ result = 0
    /\ out = 0
    /\ rc = 0
    /\ calls = <<>>
    /\ ret = IF tool = "extend" THEN 0 - 1 ELSE 0
    /\ exitStatus = Running
    /\ stdout = <<>>
    /\ stderr = <<>>
    /\ fcloses = <<>>

(* --------------------------- argp_parse -------------------------------- *)
\* argp_parse: every option given goes through the tool's parser; an option
\* the tool does not know makes it return EINVAL (22)
ArgpParse(t, cl) ==
    [rc |-> IF cl.bad THEN 22 ELSE 0, args |-> ParseAll(t, OptionsOf(cl), ZeroArgs)]

(* ----------------------- pcr-extend: main, part 1 ---------------------- *)
\* if (argp_parse (...)) goto main_out
extend_main_parse ==
    /\ tool = "extend" /\ pc = "parse"
    /\ LET r == ArgpParse(tool, argv)
       IN /\ args' = r.args
          /\ parse_rc' = r.rc
          /\ pc' = IF r.rc # 0 THEN "main_out" ELSE "check_pcr"
          /\ stderr' = IF r.rc # 0 THEN Append(stderr, "argp_parse") ELSE stderr
    /\ UNCHANGED <<tool, argv, ret, exitStatus, fcloses, fileVars, sha1Vars, buf,
                   tpmVars, stdout>>

\* if (extend_args.pcr_set == false)
NoPcrProvided(a) == a.pcr_set = FALSE

\* the verbose dump and the pcr_set check
extend_main_check ==
    /\ tool = "extend" /\ pc = "check_pcr"
    /\ stdout' = IF args.verbose THEN Append(stdout, "args") ELSE stdout
    /\ IF NoPcrProvided(args)
       THEN /\ stderr' = Append(stderr, "No PCR provided.")
            /\ pc' = "main_out"
       ELSE /\ stderr' = stderr
            /\ pc' = "open"
    /\ UNCHANGED <<tool, mainVars, fileVars, sha1Vars, buf, tpmVars>>

\* file = fopen (extend_args.file, "r"), or file = stdin
extend_main_open ==
    /\ tool = "extend" /\ pc = "open"
    /\ IF args.file # NULL
       THEN \/ \E s \in Streams :
                 /\ file' = "fh" /\ stream' = s /\ pc' = "sha1"
                 /\ stderr' = stderr
            \/ /\ file' = NULL /\ stream' = stream /\ pc' = "main_out"
               /\ stderr' = Append(stderr, "fopen")
       ELSE \E s \in Streams :
                 /\ file' = "stdin" /\ stream' = s /\ pc' = "sha1"
                 /\ stderr' = stderr
    /\ UNCHANGED <<tool, mainVars, fpos, feof, ferror, sha1Vars, buf, tpmVars, stdout>>

(* ------------------------------ sha1_file ------------------------------ *)
\* sha1_fail: return NULL
Sha1Fail(msg) ==
    /\ buf' = NoHash
    /\ pc' = "sha1_ret"
    /\ stderr' = Append(stderr, msg)

\* buf = malloc (BUF_SIZE); EVP_DigestInit (&ctx, EVP_sha1 ())
sha1_file_init ==
    /\ pc = "sha1"
    /\ \/ /\ ctx' = DigestInit /\ pc' = "sha1_read"
          /\ UNCHANGED <<buf, stderr>>
       \/ /\ Sha1Fail("malloc") /\ ctx' = ctx
       \/ /\ Sha1Fail("EVP_DigestInit") /\ ctx' = ctx
    /\ UNCHANGED <<tool, mainVars, fileVars, num_read, fed, tpmVars, stdout>>

\* a loop that stops at the first short read, before feeding it
LoopBreak_short(n) == n < BUF_SIZE

\* if (num_read <= 0) break
LoopBreak(n) == n <= 0

\* num_read = fread (buf, 1, BUF_SIZE, file)
sha1_file_read ==
    /\ pc = "sha1_read"
    /\ LET r == Fread(stream, fpos, feof, ferror)
       IN /\ num_read' = r.n
          /\ fpos' = fpos + r.n
          /\ feof' = r.feof
          /\ ferror' = r.ferror
          /\ pc' = IF LoopBreak(r.n) THEN "sha1_final" ELSE "sha1_update"
    /\ UNCHANGED <<tool, mainVars, file, stream, ctx, fed, buf, tpmVars, stdout, stderr>>

\* while (!feof (file) && !ferror (file))
LoopAgain(eof, err) == ~eof /\ ~err

\* EVP_DigestUpdate (&ctx, buf, num_read), then the loop's condition
sha1_file_update ==
    /\ pc = "sha1_update"
    /\ \/ /\ ctx' = DigestUpdate(ctx, stream, fpos - num_read, num_read)
          /\ fed' = Append(fed, <<fpos - num_read, num_read>>)
          /\ pc' = IF LoopAgain(feof, ferror) THEN "sha1_read" ELSE "sha1_final"
          /\ UNCHANGED <<buf, stderr>>
       \/ /\ Sha1Fail("EVP_DigestUpdate") /\ UNCHANGED <<ctx, fed>>
    /\ UNCHANGED <<tool, mainVars, fileVars, num_read, tpmVars, stdout>>

\* if (ferror (file)) ...; hash = calloc (...); EVP_DigestFinal (&ctx, hash, hash_len)
sha1_file_final ==
    /\ pc = "sha1_final"
    /\ IF ferror
       THEN Sha1Fail("fread")
       ELSE \/ /\ buf' = DigestFinal(ctx) /\ pc' = "sha1_ret" /\ stderr' = stderr
            \/ Sha1Fail("calloc")
            \/ Sha1Fail("EVP_DigestFinal")
    /\ UNCHANGED <<tool, mainVars, fileVars, sha1Vars, tpmVars, stdout>>

(* ----------------------- pcr-extend: main, part 2 ---------------------- *)
\* a main that does not check what sha1_file returned
DigestMissing_never(b) == FALSE

\* if (buf == NULL) goto main_out
DigestMissing(b) == b = NoHash

\* buf = sha1_file (file, &buf_len); if (buf == NULL) goto main_out
extend_main_digested ==
    /\ tool = "extend" /\ pc = "sha1_ret"
    /\ pc' = IF DigestMissing(buf) THEN "main_out" ELSE "create"
    /\ UNCHANGED <<tool, mainVars, fileVars, sha1Vars, buf, tpmVars, stdout, stderr>>

(* --------------------------- session manager --------------------------- *)
\* extend_pcr and dump_pcr share their text up to the PCR operation and from
\* the exit label on; the steps below are used by both.

Results == {TSS_SUCCESS} \cup OpErrors
TeardownResults == {TSS_SUCCESS} \cup TeardownErrors

\* a session manager that carries on after a failed step
OnResult_ignored(r, next) == next

\* if (result != TSS_SUCCESS) goto extend_out / dump_out
OnResult(r, next) == IF r # TSS_SUCCESS THEN "free" ELSE next

\* result = Tspi_Context_Create (&context): on failure context keeps the
\* indeterminate value it was declared with
SessionCreate ==
    /\ pc = "create"
    /\ \E r \in Results :
          /\ result' = r
          /\ calls' = Append(calls, Call("create", NoHandle, TRUE, r, NoHandle, NoHash))
          /\ pc' = OnResult(r, "connect")
          /\ IF r = TSS_SUCCESS
             THEN /\ \E h \in 1 .. MaxHandle : context' = h
                  /\ context_valid' = TRUE
                  /\ stderr' = stderr
             ELSE /\ \E g \in 0 .. MaxHandle : context' = g
                  /\ context_valid' = FALSE
                  /\ stderr' = Append(stderr, "Failed to create Tspi Context.")
    /\ UNCHANGED <<tool, mainVars, fileVars, sha1Vars, buf, tpm, out, rc, stdout>>

\* result = Tspi_Context_Connect (context, host)
SessionConnect ==
    /\ pc = "connect"
    /\ \E r \in Results :
          /\ result' = r
          /\ calls' = Append(calls, Call("connect", context, context_valid, r, NoHandle, NoHash))
          /\ pc' = OnResult(r, "gettpm")
          /\ stderr' = IF r # TSS_SUCCESS
                       THEN Append(stderr, "Failed to connect Tspi Context.")
                       ELSE stderr
    /\ UNCHANGED <<tool, mainVars, fileVars, sha1Vars, buf, context, context_valid,
                   tpm, out, rc, stdout>>

\* result = Tspi_Context_GetTpmObject (context, &tpm)
SessionGetTpmObject ==
    /\ pc = "gettpm"
    /\ \E r \in Results :
          /\ result' = r
          /\ calls' = Append(calls, Call("gettpm", context, context_valid, r, NoHandle, NoHash))
          /\ pc' = OnResult(r, "read")
          /\ tpm' = IF r = TSS_SUCCESS THEN TpmObject(context) ELSE tpm
          /\ stderr' = IF r # TSS_SUCCESS
                       THEN Append(stderr, "Failed to get TPM object.")
                       ELSE stderr
    /\ UNCHANGED <<tool, mainVars, fileVars, sha1Vars, buf, context, context_valid,
                   out, rc, stdout>>

\* result = Tspi_TPM_PcrRead (tpm, index, ...), the index being the caller's
\* pcr_index, and what the tool prints when the read succeeded
SessionPcrRead(next, printed) ==
    /\ pc = "read"
    /\ \E r \in Results :
          /\ result' = r
          /\ calls' = Append(calls, Call("pcr_read", tpm, tpm # NoHandle, r,
                                         args.pcr_index, NoHash))
          /\ pc' = OnResult(r, next)
          /\ stdout' = IF r = TSS_SUCCESS THEN stdout \o printed ELSE stdout
          /\ stderr' = IF r # TSS_SUCCESS
                       THEN Append(stderr, "Failed to read PCR")
                       ELSE stderr
    /\ UNCHANGED <<tool, mainVars, fileVars, sha1Vars, buf, context, context_valid,
                   tpm, out, rc>>

\* a teardown whose test of the context is inverted
CloseNeeded_inverted(c) == c = 0

\* if (context): the context is closed when its handle is not zero
CloseNeeded(c) == c # 0

\* extend_out / dump_out: out = result; result = Tspi_Context_FreeMemory (context, NULL);
\* if (context) ...
SessionFreeMemory ==
    /\ pc = "free"
    /\ out' = result
    /\ \E r \in TeardownResults :
          /\ result' = r
          /\ calls' = Append(calls, Call("free_memory", context, context_valid, r,
                                         NoHandle, NoHash))
          /\ stderr' = IF r # TSS_SUCCESS
                       THEN Append(stderr, "Failed to FreeMemory")
                       ELSE stderr
    /\ pc' = IF CloseNeeded(context) THEN "close" ELSE "return"
    /\ UNCHANGED <<tool, mainVars, fileVars, sha1Vars, buf, context, context_valid,
                   tpm, rc, stdout>>

\* result = Tspi_Context_Close (context)
SessionClose ==
    /\ pc = "close"
    /\ \E r \in TeardownResults :
          /\ result' = r
          /\ calls' = Append(calls, Call("close_context", context, context_valid, r,
                                         NoHandle, NoHash))
          /\ stderr' = IF r # TSS_SUCCESS
                       THEN Append(stderr, "Failed to close context")
                       ELSE stderr
    /\ pc' = "return"
    /\ UNCHANGED <<tool, mainVars, fileVars, sha1Vars, buf, context, context_valid,
                   tpm, out, rc, stdout>>

\* a session manager that returns result, which teardown overwrote
ReturnedCode_last(o, r) == ToInt(r)

\* return out: the value the function hands back, given out and result
ReturnedCode(o, r) == ToInt(o)

SessionReturn ==
    /\ pc = "return"
    /\ rc' = ReturnedCode(out, result)
    /\ pc' = "tpm_ret"
    /\ UNCHANGED <<tool, mainVars, fileVars, sha1Vars, buf, context, context_valid,
                   tpm, result, out, calls, stdout, stderr>>

(* ------------------------------ extend_pcr ----------------------------- *)
extend_pcr_create == tool = "extend" /\ SessionCreate
extend_pcr_connect == tool = "extend" /\ SessionConnect
extend_pcr_gettpm == tool = "extend" /\ SessionGetTpmObject

\* an extend_pcr that goes to the extend without reading the PCR
extend_pcr_read_omitted ==
    /\ tool = "extend" /\ pc = "read"
    /\ pc' = "extend"
    /\ UNCHANGED <<tool, mainVars, fileVars, sha1Vars, buf, tpmVars, stdout, stderr>>

\* Tspi_TPM_PcrRead, then "Current value for PCR" and "Extending PCR ... with data"
extend_pcr_read ==
    tool = "extend" /\ SessionPcrRead("extend", <<"pcr_before", "digest">>)

\* result = Tspi_TPM_PcrExtend (tpm, index, hash_len, hash, NULL, ...), then
\* "New state for PCR"
extend_pcr_extend ==
    /\ tool = "extend" /\ pc = "extend"
    /\ \E r \in Results :
          /\ result' = r
          /\ calls' = Append(calls, Call("pcr_extend", tpm, tpm # NoHandle, r,
                                         args.pcr_index, buf))
          /\ pc' = OnResult(r, "free")
          /\ stdout' = IF r = TSS_SUCCESS THEN Append(stdout, "pcr_after") ELSE stdout
          /\ stderr' = IF r # TSS_SUCCESS
                       THEN Append(stderr, "Failed to extend PCR")
                       ELSE stderr
    /\ UNCHANGED <<tool, mainVars, fileVars, sha1Vars, buf, context, context_valid,
                   tpm, out, rc>>

extend_pcr_free == tool = "extend" /\ SessionFreeMemory
extend_pcr_close == tool = "extend" /\ SessionClose
extend_pcr_return == tool = "extend" /\ SessionReturn

(* ----------------------- pcr-extend: main, part 3 ---------------------- *)
\* a main that takes only a negative return for a failure
ExtendFailed_negative(r) == r < 0

\* if (extend_pcr (...) != 0)
ExtendFailed(r) == r # 0

\* if (extend_pcr (...) != 0) goto main_out; ret = 0
extend_main_result ==
    /\ tool = "extend" /\ pc = "tpm_ret"
    /\ ret' = IF ExtendFailed(rc) THEN ret ELSE 0
    /\ pc' = "main_out"
    /\ UNCHANGED <<tool, argv, args, parse_rc, exitStatus, fcloses, fileVars, sha1Vars,
                   buf, tpmVars, stdout, stderr>>

\* if (ret == 0) exit (EXIT_SUCCESS); else exit (EXIT_FAILURE)
ExtendExit(r) == IF r = 0 THEN EXIT_SUCCESS ELSE EXIT_FAILURE

\* main_out: if (file != stdin) fclose (file); ... exit.  fclose (NULL) is
\* undefined: the process is ended by a signal, or the call returns
extend_main_out ==
    /\ tool = "extend" /\ pc = "main_out"
    /\ fcloses' = IF file # "stdin" THEN Append(fcloses, file) ELSE fcloses
    /\ \/ /\ file = NULL
          /\ exitStatus' = Crashed
       \/ /\ exitStatus' = ExtendExit(ret)
    /\ pc' = "exited"
    /\ UNCHANGED <<tool, argv, args, parse_rc, ret, fileVars, sha1Vars, buf, tpmVars,
                   stdout, stderr>>

(* ------------------------------- dump_pcr ------------------------------ *)
dump_pcr_create == tool = "dump" /\ SessionCreate
dump_pcr_connect == tool = "dump" /\ SessionConnect
dump_pcr_gettpm == tool = "dump" /\ SessionGetTpmObject
\* Tspi_TPM_PcrRead, then dump_buf (stdout, pcr_before, pcr_before_len)
dump_pcr_read == tool = "dump" /\ SessionPcrRead("free", <<"pcr_value">>)
dump_pcr_free == tool = "dump" /\ SessionFreeMemory
dump_pcr_close == tool = "dump" /\ SessionClose
dump_pcr_return == tool = "dump" /\ SessionReturn

(* --------------------------- pcr-dump: main ---------------------------- *)
\* if (ret = argp_parse (...)) goto main_out
dump_main_parse ==
    /\ tool = "dump" /\ pc = "parse"
    /\ LET r == ArgpParse(tool, argv)
       IN /\ args' = r.args
          /\ parse_rc' = r.rc
          /\ ret' = r.rc
          /\ pc' = IF r.rc # 0 THEN "main_out" ELSE "check_pcr"
          /\ stderr' = IF r.rc # 0 THEN Append(stderr, "argp_parse") ELSE stderr
    /\ UNCHANGED <<tool, argv, exitStatus, fcloses, fileVars, sha1Vars, buf,
                   tpmVars, stdout>>

\* the verbose dump and the pcr_set check
dump_main_check ==
    /\ tool = "dump" /\ pc = "check_pcr"
    /\ stdout' = IF args.verbose THEN Append(stdout, "args") ELSE stdout
    /\ IF NoPcrProvided(args)
       THEN /\ ret' = 1
            /\ stderr' = Append(stderr, "No PCR provided.")
            /\ pc' = "main_out"
       ELSE /\ ret' = ret
            /\ stderr' = stderr
            /\ pc' = "create"
    /\ UNCHANGED <<tool, argv, args, parse_rc, exitStatus, fcloses, fileVars, sha1Vars,
                   buf, tpmVars>>

\* ret = dump_pcr (...) != 0: the comparison binds tighter than the assignment
DumpRet(r) == IF r # 0 THEN 1 ELSE 0

\* if (ret = dump_pcr (dump_args.pcr_index) != 0) goto main_out
dump_main_result ==
    /\ tool = "dump" /\ pc = "tpm_ret"
    /\ ret' = DumpRet(rc)
    /\ pc' = "main_out"
    /\ UNCHANGED <<tool, argv, args, parse_rc, exitStatus, fcloses, fileVars, sha1Vars,
                   buf, tpmVars, stdout, stderr>>

\* a main that exits with ret itself
DumpExit_raw(r) == r % 256

\* if (ret) exit (EXIT_FAILURE); exit (EXIT_SUCCESS)
DumpExit(r) == IF r # 0 THEN EXIT_FAILURE ELSE EXIT_SUCCESS

dump_main_out ==
    /\ tool = "dump" /\ pc = "main_out"
    /\ exitStatus' = DumpExit(ret)
    /\ pc' = "exited"
    /\ UNCHANGED <<tool, argv, args, parse_rc, ret, fcloses, fileVars, sha1Vars, buf,
                   tpmVars, stdout, stderr>>

(* --------------------------- specifications ---------------------------- *)
Next ==
    \/ extend_main_parse
    \/ extend_main_check
    \/ extend_main_open
    \/ sha1_file_init
    \/ sha1_file_read
    \/ sha1_file_update
    \/ sha1_file_final
    \/ extend_main_digested
    \/ extend_pcr_create
    \/ extend_pcr_connect
    \/ extend_pcr_gettpm
    \/ extend_pcr_read
    \/ extend_pcr_extend
    \/ extend_pcr_free
    \/ extend_pcr_close
    \/ extend_pcr_return
    \/ extend_main_result
    \/ extend_main_out
    \/ dump_main_parse
    \/ dump_main_check
    \/ dump_pcr_create
    \/ dump_pcr_connect
    \/ dump_pcr_gettpm
    \/ dump_pcr_read
    \/ dump_pcr_free
    \/ dump_pcr_close
    \/ dump_pcr_return
    \/ dump_main_result
    \/ dump_main_out

Spec == Init /\ [][Next]_vars

\* sha1_file on its own: main reached the call with a PCR index parsed and a
\* stream bound to file, and sha1_file runs to its return.  The program is
\* sequential: a step that can be taken is taken.
Sha1Entry ==
    /\ tool = "extend"
    /\ pc = "sha1"
    /\ argv \in {cl \in CommandLines("extend") : cl.p # NoArg /\ ~cl.bad}
    /\ args = ArgpParse(tool, argv).args
    /\ parse_rc = 0
    /\ file = IF argv.f # NULL THEN "fh" ELSE "stdin"
    /\ stream \in Streams
    /\ fpos = 0
    /\ feof = FALSE
    /\ ferror = FALSE
    /\ num_read = 0
    /\ ctx = 0
    /\ fed = <<>>
    /\ buf = NoHash
    /\ context = 0
    /\ context_valid = FALSE
    /\ tpm = NoHandle
    /\ result = 0
    /\ out = 0
    /\ rc = 0
    /\ calls = <<>>
    /\ ret = 0 - 1
    /\ exitStatus = Running
    /\ stdout = IF argv.v THEN <<"args">> ELSE <<>>
    /\ stderr = <<>>
    /\ fcloses = <<>>

Sha1Next ==
    \/ sha1_file_init
    \/ sha1_file_read
    \/ sha1_file_update
    \/ sha1_file_final

Sha1Spec == Sha1Entry /\ [][Sha1Next]_vars /\ WF_vars(Sha1Next)

(* ------------------------ reading the call log ------------------------- *)
TeardownOps == {"free_memory", "close_context"}
PcrOps == {"pcr_read", "pcr_extend"}

CallsOf(op) == {i \in DOMAIN calls : calls[i].op = op}
CountOp(op) == Cardinality(CallsOf(op))
Succeeded(op) == \E i \in CallsOf(op) : calls[i].res = TSS_SUCCESS
Failed(op) == \E i \in CallsOf(op) : calls[i].res # TSS_SUCCESS

\* the session manager has returned to main
SessionReturned == calls # <<>> /\ pc \in {"tpm_ret", "main_out", "exited"}

\* every teardown call comes after every other TPM call
TeardownLast ==
    \A i, j \in DOMAIN calls :
        (calls[i].op \in TeardownOps /\ calls[j].op \notin TeardownOps) => j < i

\* the result of the first failing step, TSS_SUCCESS if none failed
FirstFailure ==
    LET bad == {i \in DOMAIN calls :
                   calls[i].op \notin TeardownOps /\ calls[i].res # TSS_SUCCESS}
    IN IF bad = {} THEN TSS_SUCCESS
       ELSE calls[CHOOSE i \in bad : \A j \in bad : i <= j].res

IsPrefix(a, b) == Len(a) <= Len(b) /\ a = SubSeq(b, 1, Len(a))

(* ------------------------------- claims -------------------------------- *)

\* C1: in both tools, once create-context succeeded, free_memory and
\* close_context are each invoked at most once while the session manager runs
\* and exactly once by the time it returns, whichever step failed, and both
\* come after the last other TPM call.
C1_TeardownExactlyOnce ==
    Succeeded("create") =>
        /\ CountOp("free_memory") <= 1
        /\ CountOp("close_context") <= 1
        /\ TeardownLast
        /\ SessionReturned =>
              /\ CountOp("free_memory") = 1
              /\ CountOp("close_context") = 1

\* C1 witness: the connect step failed and the session manager returned
C1_Witness ==
    /\ SessionReturned
    /\ Succeeded("create") /\ Failed("connect")
    /\ CountOp("free_memory") = 1 /\ CountOp("close_context") = 1

\* C2: the code the session manager returns is the result of the first
\* failing step among create, connect, get-TPM-object, read and extend, or
\* success if none failed, whatever free_memory and close_context returned.
C2_ResultPreserved ==
    SessionReturned => rc = FirstFailure

\* C2 witness: a step failed, both teardown calls failed too, with other codes
C2_Witness ==
    /\ SessionReturned
    /\ rc # TSS_SUCCESS
    /\ \E i \in CallsOf("free_memory") : calls[i].res \notin {TSS_SUCCESS, rc}
    /\ \E i \in CallsOf("close_context") : calls[i].res \notin {TSS_SUCCESS, rc}

\* the run failed before the session manager: parsing failed, no PCR index was
\* given, or (extend tool) the file did not open or no digest was produced
FailedEarly ==
    \/ parse_rc # 0
    \/ ~args.pcr_set
    \/ tool = "extend" /\ (file = NULL \/ buf = NoHash)

\* C3: no TPM stack operation is invoked in a run where parsing failed, no PCR
\* index was supplied or (extend tool) opening, reading or digesting the input
\* failed, and every such run ends with a failure status.
C3_NoTpmAfterEarlyFailure ==
    /\ calls # <<>> => ~FailedEarly
    /\ (pc = "exited" /\ FailedEarly) =>
          /\ calls = <<>>
          /\ exitStatus \notin {Running, EXIT_SUCCESS}

\* C3 witness: the extend tool opened its file, the stream failed to read, and
\* the process ended
C3_Witness ==
    /\ pc = "exited" /\ tool = "extend"
    /\ parse_rc = 0 /\ args.pcr_set /\ file = "fh" /\ ferror /\ buf = NoHash
    /\ calls = <<>>

\* the extend tool read the PCR, extended it and printed the three values
FullSequence ==
    /\ Succeeded("pcr_read") /\ Succeeded("pcr_extend")
    /\ Len(stdout) >= 3
    /\ SubSeq(stdout, Len(stdout) - 2, Len(stdout)) = <<"pcr_before", "digest", "pcr_after">>

\* C4: the extend tool exits 0 if and only if the run completed the whole
\* read / extend / print sequence; every other run ends with a non-zero status.
C4_ExtendExitStatus ==
    (pc = "exited" /\ tool = "extend") =>
        /\ exitStatus # Running
        /\ (exitStatus = 0) <=> FullSequence

\* C4 witness: a run of the extend tool that completed and exited 0
C4_Witness ==
    pc = "exited" /\ tool = "extend" /\ exitStatus = 0 /\ FullSequence

\* C5: the dump tool exits 0 exactly when parsing succeeded, a PCR index was
\* given and create, connect, get-TPM-object and read all succeeded, and 1
\* otherwise; the PCR value is printed only when the read succeeded.
C5_DumpExitStatus ==
    tool = "dump" =>
        /\ pc = "exited" =>
              exitStatus =
                 IF /\ parse_rc = 0 /\ args.pcr_set
                    /\ \A op \in {"create", "connect", "gettpm", "pcr_read"} : Succeeded(op)
                 THEN 0 ELSE 1
        /\ (\E i \in DOMAIN stdout : stdout[i] = "pcr_value") => Succeeded("pcr_read")

\* C5 witness: the PCR read failed and the dump tool exited 1
C5_Witness ==
    /\ pc = "exited" /\ tool = "dump"
    /\ Failed("pcr_read") /\ exitStatus = 1

\* the chunks, in order, are the len bytes of the stream: they start at 0, each
\* starts where the one before ended, and they end at len
Tiles(chunks, len) ==
    /\ \A i \in DOMAIN chunks :
          /\ chunks[i][2] >= 1 /\ chunks[i][2] <= BUF_SIZE
          /\ chunks[i][1] = IF i = 1 THEN 0 ELSE chunks[i - 1][1] + chunks[i - 1][2]
    /\ len = IF chunks = <<>> THEN 0
             ELSE chunks[Len(chunks)][1] + chunks[Len(chunks)][2]

\* what sha1_file guarantees once it returned, for a stream that reads
\* without error
Sha1Correct ==
    (pc = "sha1_ret" /\ stream.errAt = NoErr) =>
        /\ \A i \in DOMAIN stderr : stderr[i] # "fread"
        /\ buf # NoHash =>
              /\ Tiles(fed, stream.len)
              /\ buf = OnePass(stream)

\* C6: for every finite stream, the empty one and those longer than the buffer
\* included, sha1_file's loop terminates, the chunks fed to the digest are at
\* most 1024 bytes each and in order exactly the stream's bytes, the digest is
\* the one-pass digest of the input, and a read of zero bytes at end-of-stream
\* is no error.
C6_Sha1Chunking ==
    /\ []Sha1Correct
    /\ (pc = "sha1") ~> (pc = "sha1_ret")

\* C6 witness: a stream longer than one buffer, not a whole number of buffers,
\* was digested
C6_Witness ==
    /\ pc = "sha1_ret" /\ buf # NoHash
    /\ stream.errAt = NoErr
    /\ stream.len > BUF_SIZE /\ stream.len % BUF_SIZE # 0
    /\ stream.marks # {}

\* C7: when create-context fails, neither free_memory nor close_context is
\* invoked, and no TPM stack operation is called with a context handle that no
\* successful create-context produced.
C7_NoTeardownAfterCreateFailure ==
    /\ Failed("create") => (CountOp("free_memory") = 0 /\ CountOp("close_context") = 0)
    /\ \A i \in DOMAIN calls : calls[i].valid

NonTeardownCalls == SelectSeq(calls, LAMBDA c : c.op \notin TeardownOps)

\* C8: the extend tool issues create, connect, get-TPM-object, read, extend in
\* that order, each at most once and only if all earlier ones succeeded; extend
\* is issued with the parsed PCR index, the one that was read, and the digest
\* of the input; after the first failing step only teardown follows.
C8_ExtendOrder ==
    tool = "extend" =>
        /\ IsPrefix([i \in DOMAIN NonTeardownCalls |-> NonTeardownCalls[i].op],
                    <<"create", "connect", "gettpm", "pcr_read", "pcr_extend">>)
        /\ \A i \in DOMAIN NonTeardownCalls :
              i < Len(NonTeardownCalls) => NonTeardownCalls[i].res = TSS_SUCCESS
        /\ TeardownLast
        /\ \A i \in CallsOf("pcr_extend") :
              /\ calls[i].idx = Strtol(argv.p)
              /\ \E j \in CallsOf("pcr_read") :
                    j < i /\ calls[j].res = TSS_SUCCESS /\ calls[j].idx = calls[i].idx
              /\ calls[i].dat = OnePass(stream)

\* C8 witness: PCR 16 was extended with the digest of a non-empty stream
C8_Witness ==
    /\ tool = "extend"
    /\ stream.len > 0
    /\ \E i \in CallsOf("pcr_extend") :
          calls[i].res = TSS_SUCCESS /\ calls[i].idx = 16

\* C9 as stated: a session is used for exactly one PCR operation, no run
\* issues two.
C9_OnePcrOperation ==
    /\ Cardinality({i \in DOMAIN calls : calls[i].op \in PcrOps}) <= 1
    /\ (SessionReturned /\ Succeeded("gettpm")) =>
          Cardinality({i \in DOMAIN calls : calls[i].op \in PcrOps}) = 1

\* C9 amended: a session is used for exactly one pcr_read; in the extend tool,
\* when that read succeeded, it is then used for exactly one pcr_extend, and
\* otherwise for none; the dump tool never extends.  Every PCR operation is
\* given the TPM object of the run's context.
C9_PcrOperationsPerSession ==
    /\ CountOp("pcr_read") <= 1
    /\ CountOp("pcr_extend") <= 1
    /\ \A i \in DOMAIN calls :
          calls[i].op \in PcrOps => (context_valid /\ calls[i].h = TpmObject(context))
    /\ CountOp("pcr_extend") = 1 => (tool = "extend" /\ Succeeded("pcr_read"))
    /\ (SessionReturned /\ Succeeded("gettpm")) =>
          /\ CountOp("pcr_read") = 1
          /\ (tool = "extend" /\ Succeeded("pcr_read")) => CountOp("pcr_extend") = 1

\* C9 witness: the extend tool used one session for a read and an extend
C9_Witness ==
    /\ SessionReturned /\ tool = "extend"
    /\ CountOp("pcr_read") = 1 /\ CountOp("pcr_extend") = 1

\* C10: in the extend tool fclose is called only on a file that was opened,
\* never on the null handle left by a failed fopen and never on standard
\* input, and an opened file is closed exactly once before the process ends.
C10_CloseOnlyOpenedFile ==
    tool = "extend" =>
        /\ \A i \in DOMAIN fcloses : fcloses[i] = "fh"
        /\ Len(fcloses) <= 1
        /\ (pc = "exited" /\ file = "fh") => Len(fcloses) = 1

====
